---- MODULE Spec2Model ----
(***************************************************************************)
(* A model of log_02.py: the DataProcessor class, which owns one pandas    *)
(* DataFrame and one logging.Logger, and whose operations add_column,      *)
(* apply_numpy_function, save_to_csv and run wrap DataFrame calls in       *)
(* try/except blocks that log the failure.                                 *)
(*                                                                         *)
(* A DataFrame is a function from the names of its columns to sequences of *)
(* cell values, together with the length of its index (nrows).  A cell is  *)
(* a pair <<kind, n>>: <<"int", n>>, <<"float", m>> (m in thousandths),    *)
(* <<"nan", 0>> or <<"-inf", 0>>.  An exception is the name of its class.  *)
(***************************************************************************)
EXTENDS Integers, Sequences, FiniteSets, TLC

VARIABLES
    data,       \* self.data: column name -> sequence of cells
    nrows,      \* len(self.data.index)
    handlers,   \* handlers attached to logging.getLogger("DataProcessorLogger")
    instances,  \* number of DataProcessor objects constructed in this process
    log,        \* the records emitted by the operation last called (by run: since it began)
    raised,     \* the exception the last call left to its caller, or "none"
    lastOp,     \* the call last made and its arguments
    pc,         \* the statement of run() to execute next; outside run(), "idle",
                \* or "raised" when run() was left by an exception
    runTrace    \* the calls run() has made since it began

vars == <<data, nrows, handlers, instances, log, raised, lastOp, pc, runTrace>>

-----------------------------------------------------------------------------
(* Bounds of the model *)

MaxLen == 2         \* values lists passed to add_column have up to MaxLen cells
MaxInstances == 2   \* at most this many DataProcessor objects are constructed

-----------------------------------------------------------------------------
(* Cells *)

IntCell(n) == <<"int", n>>
FloatCell(m) == <<"float", m>>
NaN == <<"nan", 0>>
NegInf == <<"-inf", 0>>

IsNumber(v) == v[1] \in {"int", "float"}

\* the value of a number cell in thousandths
Milli(v) == IF v[1] = "int" THEN 1000 * v[2] ELSE v[2]

-----------------------------------------------------------------------------
(* Exceptions: the classes of Python's hierarchy that the handlers name *)

Bases ==
    [ KeyError          |-> {"KeyError", "LookupError", "Exception", "BaseException"},
      ValueError        |-> {"ValueError", "Exception", "BaseException"},
      AttributeError    |-> {"AttributeError", "Exception", "BaseException"},
      ZeroDivisionError |-> {"ZeroDivisionError", "ArithmeticError", "Exception", "BaseException"},
      PermissionError   |-> {"PermissionError", "OSError", "Exception", "BaseException"},
      FileNotFoundError |-> {"FileNotFoundError", "OSError", "Exception", "BaseException"},
      SystemExit        |-> {"SystemExit", "BaseException"} ]

\* isinstance(e, cls): what an `except cls` clause tests
IsInstance(e, cls) == cls \in Bases[e]

-----------------------------------------------------------------------------
(* The logger *)

LevelNo == [DEBUG |-> 10, INFO |-> 20, WARNING |-> 30, ERROR |-> 40, CRITICAL |-> 50]

ConsoleHandler == [kind |-> "console", target |-> "stderr", level |-> LevelNo["DEBUG"]]
FileHandler(log_file) == [kind |-> "file", target |-> log_file, level |-> LevelNo["DEBUG"]]

\* the handlers of kind k in hs that let a record of this level through
Delivering(hs, k, level) ==
    {i \in DOMAIN hs : hs[i].kind = k /\ LevelNo[level] >= hs[i].level}

\* self.logger.<level>(msg): the record, with the number of times it is
\* written to the console and to log files
Emit(lg, hs, level, event) ==
    Append(lg, [level   |-> level,
                event   |-> event,
                console |-> Cardinality(Delivering(hs, "console", level)),
                file    |-> Cardinality(Delivering(hs, "file", level))])

\* logger.addHandler(console_handler); logger.addHandler(file_handler)
AddHandlers(hs, log_file) == hs \o <<ConsoleHandler, FileHandler(log_file)>>

-----------------------------------------------------------------------------
(* The callables passed as `func`, and what a call of each does *)

Funcs == {"np_sqrt", "np_log", "math_log", "lookup", "partial_sqrt", "sys_exit"}

\* hasattr(func, "__name__"): a functools.partial object has none
HasName(func) == func # "partial_sqrt"

RECURSIVE ISqrtBetween(_, _, _)
\* the largest r in lo..hi with r * r <= x
ISqrtBetween(x, lo, hi) ==
    IF lo >= hi THEN lo
    ELSE LET mid == (lo + hi + 1) \div 2
         IN  IF mid * mid <= x THEN ISqrtBetween(x, mid, hi)
             ELSE ISqrtBetween(x, lo, mid - 1)

\* numpy.sqrt of a cell, in thousandths, truncated
Sqrt(v) ==
    IF IsNumber(v) /\ Milli(v) >= 0
    THEN FloatCell(ISqrtBetween(Milli(v) * 1000, 0, Milli(v) + 1000))
    ELSE NaN

LnTable == <<0, 693, 1098, 1386, 1609, 1791, 1945, 2079>>

\* numpy.log of a cell, in thousandths, truncated
Ln(v) ==
    IF ~IsNumber(v) \/ Milli(v) < 0 THEN NaN
    ELSE IF Milli(v) = 0 THEN NegInf
    ELSE IF v[1] = "int" /\ v[2] \in DOMAIN LnTable THEN FloatCell(LnTable[v[2]])
    ELSE <<"ln", Milli(v)>>

\* the dict TABLE of  lookup = lambda x: TABLE[x]
LookupTable == [k \in {IntCell(0)} |-> IntCell(10)]

Returns(v) == [exc |-> "none", val |-> v]
Raises(e) == [exc |-> e, val |-> NaN]

\* func(v): the value returned or the exception raised
Call(func, v) ==
    CASE func = "np_sqrt"      -> Returns(Sqrt(v))
      [] func = "partial_sqrt" -> Returns(Sqrt(v))
      [] func = "np_log"       -> Returns(Ln(v))
      [] func = "math_log"     -> IF IsNumber(v) /\ Milli(v) <= 0
                                  THEN Raises("ValueError") ELSE Returns(Ln(v))
      [] func = "lookup"       -> IF v \in DOMAIN LookupTable
                                  THEN Returns(LookupTable[v]) ELSE Raises("KeyError")
      [] func = "sys_exit"     -> Raises("SystemExit")

-----------------------------------------------------------------------------
(* pandas: the DataFrame and Series calls the class makes *)

Min(S) == CHOOSE x \in S : \A y \in S : x <= y

\* Series.apply(func): func on each cell in order; the first exception a
\* call raises ends the application
SeriesApply(col, func) ==
    LET failing == {i \in DOMAIN col : Call(func, col[i]).exc # "none"}
    IN  IF failing = {}
        THEN [exc |-> "none", val |-> [i \in DOMAIN col |-> Call(func, col[i]).val]]
        ELSE [exc |-> Call(func, col[Min(failing)]).exc, val |-> <<>>]

\* d with column `name` set to `col`
WithColumn(d, name, col) ==
    [c \in DOMAIN d \cup {name} |-> IF c = name THEN col ELSE d[c]]

\* SetItem without the length check: a list of any length becomes the column
SetItem_unchecked(d, n, name, values) ==
    [exc |-> "none", data |-> WithColumn(d, name, values),
     nrows |-> IF n = 0 THEN Len(values) ELSE n]

\* DataFrame.__setitem__(name, values) for a list: a frame with an empty
\* index takes the index of a non-empty list (the columns it has are filled
\* with NaN); otherwise a list of another length than the index is refused
SetItem(d, n, name, values) ==
    IF n = 0 /\ Len(values) > 0
    THEN [exc   |-> "none",
          data  |-> WithColumn([c \in DOMAIN d |-> [i \in 1..Len(values) |-> NaN]],
                               name, values),
          nrows |-> Len(values)]
    ELSE IF Len(values) # n
    THEN [exc |-> "ValueError", data |-> d, nrows |-> n]
    ELSE [exc |-> "none", data |-> WithColumn(d, name, values), nrows |-> n]

\* DataFrame.to_csv(output_file): the file system decides, the frame is only read
WriteOutcomes == {"none", "PermissionError", "FileNotFoundError"}

Transformed(column_name) == column_name \o "_transformed"

-----------------------------------------------------------------------------
(* DataProcessor: each method as a function of the state it reads.  A call *)
(* returns the frame, the log grown by the records it emitted, and the     *)
(* exception it left to its caller ("none" when it returned).              *)

Outcome(d, n, lg, e) == [data |-> d, nrows |-> n, log |-> lg, raised |-> e]

\* add_column without its assignment: the success is logged, the frame is not written
add_column_unassigned(d, n, hs, lg, column_name, values) ==
    LET lg1 == Emit(lg, hs, "DEBUG", "add_attempt")
        r   == SetItem(d, n, column_name, values)
    IN  IF r.exc = "none"
        THEN Outcome(d, n, Emit(lg1, hs, "INFO", "add_ok"), "none")
        ELSE Outcome(d, n, Emit(lg1, hs, "WARNING", "add_failed"), "none")

\* add_column with the success logged before the assignment is made
add_column_info_first(d, n, hs, lg, column_name, values) ==
    LET lg1 == Emit(Emit(lg, hs, "DEBUG", "add_attempt"), hs, "INFO", "add_ok")
        r   == SetItem(d, n, column_name, values)
    IN  IF r.exc = "none"
        THEN Outcome(r.data, r.nrows, lg1, "none")
        ELSE Outcome(d, n, Emit(lg1, hs, "WARNING", "add_failed"), "none")

\* DataProcessor.add_column
add_column(d, n, hs, lg, column_name, values) ==
    LET lg1 == Emit(lg, hs, "DEBUG", "add_attempt")
        r   == SetItem(d, n, column_name, values)
    IN  IF r.exc = "none"
        THEN Outcome(r.data, r.nrows, Emit(lg1, hs, "INFO", "add_ok"), "none")
        ELSE IF IsInstance(r.exc, "Exception")
        THEN Outcome(d, n, Emit(lg1, hs, "WARNING", "add_failed"), "none")
        ELSE Outcome(d, n, lg1, r.exc)

\* self.data[f"{column_name}_transformed"] = self.data[column_name].apply(func)
TransformBody(d, n, column_name, func) ==
    IF column_name \notin DOMAIN d
    THEN [exc |-> "KeyError", data |-> d, nrows |-> n]
    ELSE LET a == SeriesApply(d[column_name], func)
         IN  IF a.exc # "none"
             THEN [exc |-> a.exc, data |-> d, nrows |-> n]
             ELSE SetItem(d, n, Transformed(column_name), a.val)

\* the handler `except Exception as e` of apply_numpy_function: its message
\* reads func.__name__
CriticalHandler(d, n, hs, lg, func) ==
    IF HasName(func)
    THEN Outcome(d, n, Emit(lg, hs, "CRITICAL", "apply_critical"), "none")
    ELSE Outcome(d, n, lg, "AttributeError")

\* DataProcessor.apply_numpy_function
apply_numpy_function(d, n, hs, lg, column_name, func) ==
    IF ~HasName(func)
    THEN \* the debug message reads func.__name__: AttributeError, an Exception
         CriticalHandler(d, n, hs, lg, func)
    ELSE LET lg1 == Emit(lg, hs, "DEBUG", "apply_attempt")
             r   == TransformBody(d, n, column_name, func)
         IN  IF r.exc = "none"
             THEN Outcome(r.data, r.nrows, Emit(lg1, hs, "INFO", "apply_ok"), "none")
             ELSE IF IsInstance(r.exc, "KeyError")
             THEN Outcome(d, n, Emit(lg1, hs, "WARNING", "column_not_found"), "none")
             ELSE IF IsInstance(r.exc, "Exception")
             THEN CriticalHandler(d, n, hs, lg1, func)
             ELSE Outcome(d, n, lg1, r.exc)

\* save_to_csv with `except Exception` placed before `except PermissionError`
save_to_csv_exception_first(d, n, hs, lg, output_file, written) ==
    LET lg1 == Emit(lg, hs, "DEBUG", "save_attempt")
    IN  IF written = "none"
        THEN Outcome(d, n, Emit(lg1, hs, "INFO", "save_ok"), "none")
        ELSE IF IsInstance(written, "Exception")
        THEN Outcome(d, n, Emit(lg1, hs, "CRITICAL", "save_critical"), "none")
        ELSE Outcome(d, n, lg1, written)

\* DataProcessor.save_to_csv; `written` is what to_csv raised, or "none"
save_to_csv(d, n, hs, lg, output_file, written) ==
    LET lg1 == Emit(lg, hs, "DEBUG", "save_attempt")
    IN  IF written = "none"
        THEN Outcome(d, n, Emit(lg1, hs, "INFO", "save_ok"), "none")
        ELSE IF IsInstance(written, "PermissionError")
        THEN Outcome(d, n, Emit(lg1, hs, "WARNING", "save_denied"), "none")
        ELSE IF IsInstance(written, "Exception")
        THEN Outcome(d, n, Emit(lg1, hs, "CRITICAL", "save_critical"), "none")
        ELSE Outcome(d, n, lg1, written)

\* a / b
Divide(a, b) == IF b = 0 THEN Raises("ZeroDivisionError") ELSE Returns(a \div b)

\* the try block of run() with a handler for another class: `except ValueError`
forced_division_uncaught(d, n, hs, lg) ==
    LET lg1 == Emit(lg, hs, "DEBUG", "forced_attempt")
        q   == Divide(1, 0)
    IN  IF q.exc = "none" THEN Outcome(d, n, lg1, "none")
        ELSE IF IsInstance(q.exc, "ValueError")
        THEN Outcome(d, n, Emit(lg1, hs, "CRITICAL", "forced_critical"), "none")
        ELSE Outcome(d, n, lg1, q.exc)

\* the try block of run(): _ = 1 / 0
forced_division(d, n, hs, lg) ==
    LET lg1 == Emit(lg, hs, "DEBUG", "forced_attempt")
        q   == Divide(1, 0)
    IN  IF q.exc = "none" THEN Outcome(d, n, lg1, "none")
        ELSE IF IsInstance(q.exc, "ZeroDivisionError")
        THEN Outcome(d, n, Emit(lg1, hs, "CRITICAL", "forced_critical"), "none")
        ELSE Outcome(d, n, lg1, q.exc)

\* the literals of run()
RunColumn == "NewColumn"
RunValues == <<IntCell(1), IntCell(2), IntCell(3), IntCell(4), IntCell(5)>>
RunMissingColumn == "NonExistentColumn"
RunOutputFile == "output_data.csv"

\* the default of __init__'s log_file
DefaultLogFile == "data_processing.log"

-----------------------------------------------------------------------------
(* The inputs of the calls *)

RECURSIVE SeqsOfLen(_, _)
SeqsOfLen(S, k) ==
    IF k = 0 THEN {<<>>}
    ELSE {Append(q, x) : q \in SeqsOfLen(S, k - 1), x \in S}

\* the cells of the lists given to add_column: 0 (math.log refuses it, TABLE
\* has it) and 1 (math.log takes it, TABLE lacks it)
AddCells == {IntCell(0), IntCell(1)}

\* the values lists given to add_column: every list of up to MaxLen cells,
\* and the list run() gives
ValuesLists == UNION {SeqsOfLen(AddCells, k) : k \in 0..MaxLen} \cup {RunValues}

NoColumns == [c \in {} |-> <<>>]

\* the frame of the __main__ block
MainFrame ==
    [data  |-> [c \in {"A", "B"} |->
                  IF c = "A" THEN RunValues
                  ELSE [i \in 1..5 |-> IntCell(10 * i)]],
     nrows |-> 5]

\* a frame that already has the columns run() names
PreparedFrame ==
    [data  |-> [c \in {RunColumn, RunMissingColumn} |-> [i \in 1..5 |-> IntCell(i - 1)]],
     nrows |-> 5]

\* frames of up to MaxLen rows with no column or the column "A"
SmallFrames ==
    UNION {{[data |-> NoColumns, nrows |-> k]}
             \cup {[data |-> [c \in {"A"} |-> q], nrows |-> k] : q \in SeqsOfLen(AddCells, k)}
           : k \in 0..MaxLen}

\* the input_data given to __init__: frames whose columns all have nrows cells
InputFrames == {MainFrame, PreparedFrame} \cup SmallFrames

AddNames == {"A", Transformed("A")}
ApplyNames == {"A", "Zzz"}
OutputFiles == {RunOutputFile, "/readonly/out.csv"}
LogFiles == {DefaultLogFile, "other.log"}

\* a call, its arguments, and the row count of the frame when it is made
Op(op, name, values, func, path, written) ==
    [op |-> op, name |-> name, values |-> values, func |-> func,
     path |-> path, written |-> written, rows |-> nrows]

NoArgs(op) == Op(op, "", <<>>, "", "", "none")

-----------------------------------------------------------------------------
(* The state machine *)

\* the process before any DataProcessor is constructed
InitProcess ==
    /\ data = NoColumns
    /\ nrows = 0
    /\ handlers = <<>>
    /\ instances = 0
    /\ log = <<>>
    /\ raised = "none"
    /\ lastOp = NoArgs("none")
    /\ pc = "idle"
    /\ runTrace = <<>>

\* _setup_logger guarded by `if not logger.handlers`: handlers are attached once
setup_logger_once(hs, log_file) == IF hs = <<>> THEN AddHandlers(hs, log_file) ELSE hs

\* DataProcessor._setup_logger: the handlers of the logger named
\* "DataProcessorLogger" after the call
setup_logger(hs, log_file) == AddHandlers(hs, log_file)

\* the state after  DataProcessor(input_data)  in a fresh process
Init ==
    \E frame \in InputFrames :
        /\ data = frame.data
        /\ nrows = frame.nrows
        /\ handlers = setup_logger(<<>>, DefaultLogFile)
        /\ instances = 1
        /\ log = Emit(<<>>, handlers, "INFO", "init")
        /\ raised = "none"
        /\ lastOp = NoArgs("__init__")
        /\ pc = "idle"
        /\ runTrace = <<>>

\* DataProcessor.__init__; `opened` is what logging.FileHandler(log_file)
\* raised, or "none".  The new object is the one the later calls are made on.
Construct ==
    /\ pc \in {"idle", "raised"}
    /\ instances < MaxInstances
    /\ \E frame \in InputFrames, log_file \in LogFiles, opened \in {"none", "PermissionError"} :
        /\ lastOp' = Op("__init__", "", <<>>, "", log_file, opened)
        /\ raised' = opened
        /\ IF opened = "none"
           THEN /\ data' = frame.data
                /\ nrows' = frame.nrows
                /\ handlers' = setup_logger(handlers, log_file)
                /\ instances' = instances + 1
                /\ log' = Emit(<<>>, handlers', "INFO", "init")
           ELSE /\ log' = <<>>
                /\ UNCHANGED <<data, nrows, handlers, instances>>
    /\ UNCHANGED <<pc, runTrace>>

\* the effect of a call with outcome r on the processor's state
Effect(r) ==
    /\ data' = r.data
    /\ nrows' = r.nrows
    /\ log' = r.log
    /\ raised' = r.raised

\* no call is in progress and a DataProcessor exists
Callable == pc \in {"idle", "raised"} /\ instances >= 1

AddColumn ==
    /\ Callable
    /\ \E column_name \in AddNames, values \in ValuesLists :
        /\ Effect(add_column(data, nrows, handlers, <<>>, column_name, values))
        /\ lastOp' = Op("add_column", column_name, values, "", "", "none")
    /\ UNCHANGED <<handlers, instances, pc, runTrace>>

ApplyNumpyFunction ==
    /\ Callable
    /\ \E column_name \in ApplyNames, func \in Funcs :
        /\ Effect(apply_numpy_function(data, nrows, handlers, <<>>, column_name, func))
        /\ lastOp' = Op("apply_numpy_function", column_name, <<>>, func, "", "none")
    /\ UNCHANGED <<handlers, instances, pc, runTrace>>

SaveToCsv ==
    /\ Callable
    /\ \E output_file \in OutputFiles, written \in WriteOutcomes :
        /\ Effect(save_to_csv(data, nrows, handlers, <<>>, output_file, written))
        /\ lastOp' = Op("save_to_csv", "", <<>>, "", output_file, written)
    /\ UNCHANGED <<handlers, instances, pc, runTrace>>

\* one statement of run(): the call o with outcome r; an exception the call
\* leaves to run() ends run()
RunStatement(o, r, next) ==
    /\ Effect(r)
    /\ lastOp' = o
    /\ runTrace' = Append(runTrace, o)
    /\ pc' = IF r.raised = "none" THEN next ELSE "raised"
    /\ UNCHANGED <<handlers, instances>>

RunBegin ==
    /\ Callable
    /\ log' = Emit(<<>>, handlers, "INFO", "run_start")
    /\ raised' = "none"
    /\ lastOp' = NoArgs("run")
    /\ runTrace' = <<>>
    /\ pc' = "add_column"
    /\ UNCHANGED <<data, nrows, handlers, instances>>

RunAddColumn ==
    /\ pc = "add_column"
    /\ RunStatement(Op("add_column", RunColumn, RunValues, "", "", "none"),
                    add_column(data, nrows, handlers, log, RunColumn, RunValues),
                    "apply_sqrt")

RunApplySqrt ==
    /\ pc = "apply_sqrt"
    /\ RunStatement(Op("apply_numpy_function", RunColumn, <<>>, "np_sqrt", "", "none"),
                    apply_numpy_function(data, nrows, handlers, log, RunColumn, "np_sqrt"),
                    "apply_log")

RunApplyLog ==
    /\ pc = "apply_log"
    /\ RunStatement(Op("apply_numpy_function", RunMissingColumn, <<>>, "np_log", "", "none"),
                    apply_numpy_function(data, nrows, handlers, log, RunMissingColumn, "np_log"),
                    "division")

RunDivision ==
    /\ pc = "division"
    /\ RunStatement(NoArgs("forced_division"),
                    forced_division(data, nrows, handlers, log),
                    "save_to_csv")

RunSave ==
    /\ pc = "save_to_csv"
    /\ \E written \in WriteOutcomes :
        RunStatement(Op("save_to_csv", "", <<>>, "", RunOutputFile, written),
                     save_to_csv(data, nrows, handlers, log, RunOutputFile, written),
                     "end")

RunEnd ==
    /\ pc = "end"
    /\ log' = Emit(log, handlers, "INFO", "run_end")
    /\ lastOp' = NoArgs("run_end")
    /\ pc' = "idle"
    /\ UNCHANGED <<data, nrows, handlers, instances, raised, runTrace>>

Run ==
    \/ RunBegin
    \/ RunAddColumn
    \/ RunApplySqrt
    \/ RunApplyLog
    \/ RunDivision
    \/ RunSave
    \/ RunEnd

Next ==
    \/ AddColumn
    \/ ApplyNumpyFunction
    \/ SaveToCsv
    \/ Run

\* one DataProcessor and any sequence of calls on it
Spec == Init /\ [][Next]_vars

NextLogger ==
    \/ Construct
    \/ Run

\* a process that constructs DataProcessor objects and calls run() on them
SpecLogger == InitProcess /\ [][NextLogger]_vars

-----------------------------------------------------------------------------
(* Properties *)

Guarded == {"add_column", "apply_numpy_function", "save_to_csv"}

Events(lg) == {lg[i].event : i \in DOMAIN lg}
Levels(lg) == {lg[i].level : i \in DOMAIN lg}

\* the records the call of this step emitted: inside run() the log grows,
\* outside it the log starts anew
Emitted == IF pc \in {"idle", "raised"} THEN log' ELSE SubSeq(log', Len(log) + 1, Len(log'))

\* every column of the frame but `name` is as it was
OthersKept(name) ==
    \A c \in DOMAIN data \ {name} : c \in DOMAIN data' /\ data'[c] = data[c]

\* C1: each of add_column, apply_numpy_function and save_to_csv returns
\* normally to its caller, whatever its arguments: no exception leaves it.
C1_NoFailureLeavesOperation ==
    lastOp.op \in Guarded => raised = "none"

\* what identifies a statement of run(): the call and its literal arguments
Shape(o) == <<o.op, o.name, o.func, o.path>>

RunShapes ==
    << <<"add_column", RunColumn, "", "">>,
       <<"apply_numpy_function", RunColumn, "np_sqrt", "">>,
       <<"apply_numpy_function", RunMissingColumn, "np_log", "">>,
       <<"forced_division", "", "", "">>,
       <<"save_to_csv", "", "", RunOutputFile>> >>

TraceShapes == [i \in DOMAIN runTrace |-> Shape(runTrace[i])]

\* C2: run() is never left by an exception; the calls it has made are always
\* a prefix of add_column("NewColumn"), apply("NewColumn", sqrt),
\* apply("NonExistentColumn", log), the forced division (logged critical),
\* save_to_csv("output_data.csv"); and when it returns all five were made,
\* save_to_csv last.
C2_RunAlwaysPersists ==
    /\ pc # "raised"
    /\ pc \notin {"idle", "raised"} =>
          /\ raised = "none"
          /\ Len(runTrace) <= Len(RunShapes)
          /\ TraceShapes = SubSeq(RunShapes, 1, Len(runTrace))
    /\ pc \in {"save_to_csv", "end"} => "forced_critical" \in Events(log)
    /\ lastOp.op = "run_end" =>
          /\ raised = "none"
          /\ TraceShapes = RunShapes
          /\ "save_attempt" \in Events(log)

\* run() has returned after add_column failed, both transforms found no
\* column and the write failed
C2_Witness ==
    /\ lastOp.op = "run_end"
    /\ pc = "idle"
    /\ {"add_failed", "column_not_found", "forced_critical", "save_critical"} \subseteq Events(log)

\* C3: apply_numpy_function on a column name that the frame lacks leaves the
\* frame as it was and returns normally.
C3_AbsentColumnUnchanged ==
    [][(lastOp'.op = "apply_numpy_function" /\ lastOp'.name \notin DOMAIN data)
         => (data' = data /\ nrows' = nrows /\ raised' = "none")]_vars

\* C4: after add_column(name, values) with as many values as the frame has
\* rows, column `name` is exactly `values` and every other column is as it was.
C4_AddColumnReadBack ==
    [][(lastOp'.op = "add_column" /\ Len(lastOp'.values) = nrows)
         => /\ raised' = "none"
            /\ DOMAIN data' = DOMAIN data \cup {lastOp'.name}
            /\ data'[lastOp'.name] = lastOp'.values
            /\ nrows' = nrows
            /\ OthersKept(lastOp'.name)]_vars

\* add_column has set a column of a frame that has rows and another column
C4_Witness ==
    /\ lastOp.op = "add_column"
    /\ lastOp.rows > 0
    /\ Len(lastOp.values) = lastOp.rows
    /\ lastOp.name \in DOMAIN data
    /\ data[lastOp.name] = lastOp.values
    /\ DOMAIN data \ {lastOp.name} # {}

\* C5: for a column c of the frame and a func that succeeds on each of its
\* cells, apply_numpy_function(c, func) sets column c_transformed to func of
\* each cell of c, in order, and leaves every other column as it was.
C5_TransformElementwise ==
    [][(/\ lastOp'.op = "apply_numpy_function"
        /\ lastOp'.name \in DOMAIN data
        /\ \A i \in DOMAIN data[lastOp'.name] :
              Call(lastOp'.func, data[lastOp'.name][i]).exc = "none")
         => /\ DOMAIN data' = DOMAIN data \cup {Transformed(lastOp'.name)}
            /\ data'[Transformed(lastOp'.name)] =
                  [i \in DOMAIN data[lastOp'.name] |->
                      Call(lastOp'.func, data[lastOp'.name][i]).val]
            /\ OthersKept(Transformed(lastOp'.name))]_vars

\* C6: apply_numpy_function logs a warning only when the frame lacks the
\* column: on a column the frame has, no failure is reported as the warning
\* "column not found", and an error (an Exception) that func raises on a
\* cell is logged critical.
C6_TransformFailureClasses ==
    [][(lastOp'.op = "apply_numpy_function" /\ lastOp'.name \in DOMAIN data)
         => /\ "WARNING" \notin Levels(Emitted)
            /\ (/\ SeriesApply(data[lastOp'.name], lastOp'.func).exc # "none"
                /\ IsInstance(SeriesApply(data[lastOp'.name], lastOp'.func).exc, "Exception"))
                  => "CRITICAL" \in Levels(Emitted)]_vars

\* C7: when add_column is given a list of another length than the row count
\* of a frame that has rows, the assignment fails; and whenever the
\* assignment fails, a warning is logged, no info record is, the call
\* returns normally and the frame is as it was.
C7_AddColumnFailure ==
    [][lastOp'.op = "add_column"
         => /\ (nrows > 0 /\ Len(lastOp'.values) # nrows) => "add_failed" \in Events(Emitted)
            /\ "add_failed" \in Events(Emitted)
                  => /\ Levels(Emitted) = {"DEBUG", "WARNING"}
                     /\ raised' = "none"
                     /\ data' = data
                     /\ nrows' = nrows]_vars

\* add_column has failed on a column the frame already had
C7_Witness ==
    /\ lastOp.op = "add_column"
    /\ lastOp.rows > 0
    /\ Len(lastOp.values) # lastOp.rows
    /\ "add_failed" \in Events(log)
    /\ lastOp.name \in DOMAIN data
    /\ data[lastOp.name] # lastOp.values

\* the level of the record that reports what to_csv did
SaveLevel(written) ==
    CASE written = "none" -> "INFO"
      [] written = "PermissionError" -> "WARNING"
      [] OTHER -> "CRITICAL"

\* C8: save_to_csv emits the debug record of the attempt and then exactly
\* one record: info when the write succeeded, warning when it raised
\* PermissionError, critical when it raised anything else; the frame is
\* as it was.
C8_SaveFailureClasses ==
    [][lastOp'.op = "save_to_csv"
         => /\ Len(Emitted) = 2
            /\ Emitted[1].level = "DEBUG" /\ Emitted[1].event = "save_attempt"
            /\ Emitted[2].level = SaveLevel(lastOp'.written)
            /\ raised' = "none"
            /\ data' = data
            /\ nrows' = nrows]_vars

\* save_to_csv has met a PermissionError
C8_Witness ==
    /\ lastOp.op = "save_to_csv"
    /\ lastOp.written = "PermissionError"
    /\ "save_denied" \in Events(log)

\* C9: every column of the frame has as many cells as every other (as many
\* as the index has rows), after any sequence of calls.
C9_RowCountConsistent ==
    /\ \A c \in DOMAIN data : Len(data[c]) = nrows
    /\ \A c1, c2 \in DOMAIN data : Len(data[c1]) = Len(data[c2])

\* add_column has failed on a list of another length, on a frame of several columns
C9_Witness ==
    /\ lastOp.op = "add_column"
    /\ Len(lastOp.values) # nrows
    /\ "add_failed" \in Events(log)
    /\ Cardinality(DOMAIN data) >= 2

\* C10: after k constructions the logger holds 2k handlers, k of the console
\* and k of files, and every record is written k times to the console and k
\* times by file handlers.
C10_HandlersAccumulate ==
    /\ Len(handlers) = 2 * instances
    /\ Cardinality({i \in DOMAIN handlers : handlers[i].kind = "console"}) = instances
    /\ Cardinality({i \in DOMAIN handlers : handlers[i].kind = "file"}) = instances
    /\ \A i \in DOMAIN log : log[i].console = instances /\ log[i].file = instances

\* the second DataProcessor of the process has run(): its records are written twice
C10_Witness ==
    /\ instances = 2
    /\ lastOp.op = "run_end"
    /\ \A i \in DOMAIN log : log[i].console = 2 /\ log[i].file = 2

=============================================================================
